---- MODULE Spec2Model ----
(***************************************************************************)
(* VTT-to-OP47 titling server: the playback scheduler (tick, load, stop),  *)
(* its two time sources, the HTTP control surface and the CasparCG         *)
(* dispatcher (CasparClient) with its reconnect logic.                     *)
(*                                                                         *)
(* Times are integer milliseconds: WebVTT timestamps have millisecond      *)
(* resolution and Date.now() is in milliseconds; the code's seconds are    *)
(* these values divided by 1000 (MsPerSecond).                             *)
(*                                                                         *)
(* Indices are the code's 0-based indices: segment index i is the element  *)
(* segments[i + 1] of the TLA+ sequence.                                   *)
(*                                                                         *)
(* A JavaScript value that may be null/undefined is a sequence: << >> is   *)
(* null, <<v>> is the value v.                                             *)
(***************************************************************************)
EXTENDS Integers, Sequences, FiniteSets, TLC

VARIABLES
  segments,               \* let segments = []
  lastShownSegmentIndex,  \* let lastShownSegmentIndex = -1
  tickTimer,              \* let tickTimer = null  (<< >> or <<"interval">>)
  intervals,              \* number of active setInterval(tick) timers of the event loop
  timeMode,               \* 'osc' | 'autonomous'
  autonomousStartAt,      \* VTT time at which autonomous mode started (ms)
  autonomousStartWall,    \* Date.now() when autonomous mode started (ms)
  now,                    \* Date.now()
  currentTimeSeconds,     \* the OSC time source's last reading: << >> or <<t>> (ms)
  sockets,                \* net.Socket objects whose 'close' was not emitted yet, in creation order
  socket,                 \* CasparClient.#socket: 0 (null) or an index into sockets
  reconnectTimer,         \* CasparClient.#reconnectTimer: "null", "pending" (newest timeout) or "fired"
  timeouts,               \* pending setTimeout(connect) timers: their delays, in creation order
  inflight,               \* POST /titling handlers suspended in await fs.readFile
  response,               \* the HTTP response sent by the last step: << >> or <<[req, status]>>
  calls,                  \* the dispatcher calls made by the last step
  lastWritten,            \* the rows of the last command written to a socket: << >> or <<rows>>
  wroteSinceLoad,         \* history: a command was written since the last load completed
  lastOp,                 \* history: the last completed load/stop operation
  disconnected,           \* history: disconnect() was called and connect() was not called since
  oscTicked,              \* history: a tick has read a non-null OSC time
  alive,                  \* the process has not exited
  loadedCues,             \* loadVTT's const cues (parseVTT(content)) of the last completed load
  stopInForce,            \* history: << >>, or <<n>> after stopTitling() until a load requested
                          \* after it completes; the first n handlers of inflight were
                          \* suspended when it ran
  czechOpts,              \* X26Encoder: the options its #czechMap was built from
  enhancements,           \* X26Encoder.#enhancements
  packets,                \* X26Encoder.#packets: << >> (undefined) or <<list of packets>>
  wstOpts,                \* WSTEncoder: #diacriticsEncoding, #startRow, #x26Opts
  returned                \* the last encoder call: its name, arguments and return value

vars == <<segments, lastShownSegmentIndex, tickTimer, intervals, timeMode,
          autonomousStartAt, autonomousStartWall, now, currentTimeSeconds,
          sockets, socket, reconnectTimer, timeouts, inflight, response,
          calls, lastWritten, wroteSinceLoad, lastOp, disconnected, oscTicked, alive,
          loadedCues, stopInForce, czechOpts, enhancements, packets, wstOpts, returned>>

schedulerVars == <<segments, lastShownSegmentIndex, tickTimer, intervals, timeMode,
                   autonomousStartAt, autonomousStartWall>>

clientVars == <<sockets, socket, reconnectTimer, timeouts>>

encoderVars == <<czechOpts, enhancements, packets, wstOpts, returned>>

\* everything but the encoders
serverVars == <<schedulerVars, now, currentTimeSeconds, clientVars, inflight, response,
                calls, lastWritten, wroteSinceLoad, lastOp, disconnected, oscTicked,
                alive, loadedCues, stopInForce>>

(***************************************************************************)
(* Program constants                                                       *)
(***************************************************************************)
GAP_BEFORE_CLEAR_S == 2
TICK_MS == 100
MsPerSecond == 1000
reconnectDelay == 2000

(***************************************************************************)
(* Bounds of the model                                                     *)
(***************************************************************************)
MaxNow == 3000      \* the wall clock stops advancing here
ClockStep == 1000   \* granularity of the free-running clock in Spec
MaxInflight == 1    \* concurrent POST /titling requests awaiting their file
MaxSockets == 3     \* sockets plus pending reconnect timers while connect() may be called
MaxTriplets == 27   \* enhancement triplets accumulated in one X26Encoder

(***************************************************************************)
(* Small helpers                                                           *)
(***************************************************************************)
Null == << >>

Some(v) == <<v>>

Seg(s, e, l) == [start |-> s, end |-> e, lines |-> l]

RemoveAt(seq, i) == [k \in 1..(Len(seq) - 1) |-> IF k < i THEN seq[k] ELSE seq[k + 1]]

MinOf(S) == CHOOSE x \in S : \A y \in S : x <= y

\* a / b for the values whose quotient is a whole number
ExactDiv(a, b) == CHOOSE q \in {a \div b} : q * b = a

(***************************************************************************)
(* Strings                                                                 *)
(*                                                                         *)
(* A JavaScript string is the sequence of its UTF-16 code units; a code    *)
(* unit is named by a TLA+ string.  length, slice and substring count code *)
(* units; Array.from and TextEncoder see code points.                      *)
(***************************************************************************)
\* the code units that \s matches
Whitespace == {" "}

\* n copies of the code unit u
Rep(u, n) == [k \in 1..n |-> u]

\* str.slice(0, n), str.substring(0, n)
Prefix(str, n) == SubSeq(str, 1, IF Len(str) < n THEN Len(str) ELSE n)

\* list.join(''), [...a, ...b]: the concatenation of the sequences of a list
RECURSIVE Flatten(_)
Flatten(list) == IF list = << >> THEN << >> ELSE Head(list) \o Flatten(Tail(list))

\* the code units of the surrogate pairs of the model
HighSurrogates == {"D83D"}

LowSurrogates == {"DE00"}

\* the code units of the model that are not ASCII: Czech letters with an acute, a ring
\* or a caron, a letter outside the Czech tables, and the surrogates
NonAscii == {"a_acute", "u_ring", "c_caron", "Z_caron", "o_umlaut"}
              \cup HighSurrogates \cup LowSurrogates

\* Array.from(str): the code points of a string, each the sequence of its code units
RECURSIVE CodePoints(_)
CodePoints(str) ==
  IF str = << >> THEN << >>
  ELSE IF Len(str) >= 2 /\ str[1] \in HighSurrogates /\ str[2] \in LowSurrogates
  THEN <<SubSeq(str, 1, 2)>> \o CodePoints(SubSeq(str, 3, Len(str)))
  ELSE <<SubSeq(str, 1, 1)>> \o CodePoints(Tail(str))

\* the number of bytes of the UTF-8 encoding of a code point (a lone surrogate is
\* encoded as U+FFFD)
Utf8Length(cp) ==
  IF Len(cp) = 2 THEN 4
  ELSE IF cp[1] \in HighSurrogates \cup LowSurrogates THEN 3
  ELSE IF cp[1] \in NonAscii THEN 2
  ELSE 1

\* new TextEncoder().encode(str): an ASCII byte is named by its character, the k-th
\* byte of a longer encoding by its code point and k
textEncode(str) ==
  LET cps == CodePoints(str) IN
  Flatten([c \in 1..Len(cps) |->
             IF Utf8Length(cps[c]) = 1 THEN cps[c]
             ELSE [k \in 1..Utf8Length(cps[c]) |-> [utf8 |-> cps[c], byte |-> k]]])

\* the sum of the lengths of the strings of a list: list.join('').length
RECURSIVE joinedLength(_)
joinedLength(list) ==
  IF list = << >> THEN 0 ELSE Len(Head(list)) + joinedLength(Tail(list))

(***************************************************************************)
(* CasparClient (caspar-client.js)                                         *)
(*                                                                         *)
(* A socket is "connecting" after socket.connect(), "open" after its       *)
(* 'connect' event and "destroyed" once it failed, was ended by the peer   *)
(* or was destroyed; its 'close' event is emitted later, in a turn of its  *)
(* own, and removes it from sockets.  A socket is live while it is not     *)
(* destroyed.                                                              *)
(***************************************************************************)
Live(s) == s # "destroyed"

\* if (!this.#socket || this.#socket.destroyed) return;  -- negated
writable == socket # 0 /\ Live(sockets[socket])

TitleCall(lines, ok) == [op |-> "sendTitle", lines |-> lines, written |-> ok]

ClearCall(ok) == [op |-> "clearTitle", lines |-> << >>, written |-> ok]

\* A written command is identified by the rows handed to encodeSubtitle:
\* the segment's lines for a title, no rows for a clear.
sendTitle(lines) ==
  /\ calls' = <<TitleCall(lines, writable)>>
  /\ lastWritten' = IF writable THEN Some(lines) ELSE lastWritten
  /\ wroteSinceLoad' = (wroteSinceLoad \/ writable)

clearTitle ==
  /\ calls' = <<ClearCall(writable)>>
  /\ lastWritten' = IF writable THEN Some(<< >>) ELSE lastWritten
  /\ wroteSinceLoad' = (wroteSinceLoad \/ writable)

noCommand == calls' = << >> /\ UNCHANGED <<lastWritten, wroteSinceLoad>>

connect ==
  IF socket # 0
  THEN UNCHANGED <<sockets, socket>>
  ELSE /\ sockets' = Append(sockets, "connecting")
       /\ socket' = Len(sockets) + 1

\* The 'close' listener of socket i.
onCloseNoRetry(i) ==
  /\ socket' = 0
  /\ sockets' = RemoveAt(sockets, i)
  /\ UNCHANGED <<timeouts, reconnectTimer>>

onClose(i) ==
  /\ socket' = 0
  /\ sockets' = RemoveAt(sockets, i)
  /\ timeouts' = Append(timeouts, reconnectDelay)
  /\ reconnectTimer' = "pending"

disconnect ==
  /\ IF reconnectTimer # "null"
     THEN /\ timeouts' = IF reconnectTimer = "pending"
                         THEN SubSeq(timeouts, 1, Len(timeouts) - 1)
                         ELSE timeouts
          /\ reconnectTimer' = "null"
     ELSE UNCHANGED <<timeouts, reconnectTimer>>
  /\ IF socket # 0
     THEN /\ sockets' = [sockets EXCEPT ![socket] = "destroyed"]
          /\ socket' = 0
     ELSE UNCHANGED <<sockets, socket>>

quiet == calls' = << >> /\ response' = Null /\ UNCHANGED <<lastWritten, wroteSinceLoad>>

\* caspar.connect() called from outside the class.
Connect ==
  /\ alive
  /\ Len(sockets) + Len(timeouts) < MaxSockets
  /\ connect
  /\ disconnected' = FALSE
  /\ quiet
  /\ UNCHANGED <<schedulerVars, now, currentTimeSeconds, reconnectTimer, timeouts,
                 inflight, lastOp, oscTicked, alive>>
  /\ UNCHANGED <<loadedCues, stopInForce, encoderVars>>

\* caspar.disconnect() called from outside the class.
Disconnect ==
  /\ alive
  /\ disconnect
  /\ disconnected' = TRUE
  /\ quiet
  /\ UNCHANGED <<schedulerVars, now, currentTimeSeconds, inflight, lastOp,
                 oscTicked, alive>>
  /\ UNCHANGED <<loadedCues, stopInForce, encoderVars>>

\* 'connect' event of socket i: logged.
SocketConnected(i) ==
  /\ alive
  /\ sockets[i] = "connecting"
  /\ sockets' = [sockets EXCEPT ![i] = "open"]
  /\ quiet
  /\ UNCHANGED <<schedulerVars, now, currentTimeSeconds, socket, reconnectTimer,
                 timeouts, inflight, lastOp, disconnected, oscTicked, alive>>
  /\ UNCHANGED <<loadedCues, stopInForce, encoderVars>>

\* The connection attempt fails, the connection breaks or the peer ends it:
\* the 'error' listener logs, and Node destroys the socket.
SocketError(i) ==
  /\ alive
  /\ Live(sockets[i])
  /\ sockets' = [sockets EXCEPT ![i] = "destroyed"]
  /\ quiet
  /\ UNCHANGED <<schedulerVars, now, currentTimeSeconds, socket, reconnectTimer,
                 timeouts, inflight, lastOp, disconnected, oscTicked, alive>>
  /\ UNCHANGED <<loadedCues, stopInForce, encoderVars>>

\* 'close' event of the destroyed socket i.
SocketClose(i) ==
  /\ alive
  /\ sockets[i] = "destroyed"
  /\ onClose(i)
  /\ quiet
  /\ UNCHANGED <<schedulerVars, now, currentTimeSeconds, inflight, lastOp,
                 disconnected, oscTicked, alive>>
  /\ UNCHANGED <<loadedCues, stopInForce, encoderVars>>

\* The oldest pending setTimeout(() => this.connect(), reconnectDelay) fires.
ReconnectTimerFire ==
  /\ alive
  /\ timeouts # << >>
  /\ timeouts' = Tail(timeouts)
  /\ reconnectTimer' = IF reconnectTimer = "pending" /\ Len(timeouts) = 1
                       THEN "fired" ELSE reconnectTimer
  /\ connect
  /\ quiet
  /\ UNCHANGED <<schedulerVars, now, currentTimeSeconds, inflight, lastOp,
                 disconnected, oscTicked, alive>>
  /\ UNCHANGED <<loadedCues, stopInForce, encoderVars>>

(***************************************************************************)
(* OSC time source (osc-time-source.js)                                    *)
(*                                                                         *)
(* A JavaScript value is a record: t is its type, s its string value and   *)
(* n its numeric value.                                                    *)
(***************************************************************************)
Undefined == [t |-> "undefined", s |-> "", n |-> 0]

JsNull == [t |-> "null", s |-> "", n |-> 0]

Str(x) == [t |-> "string", s |-> x, n |-> 0]

Num(k) == [t |-> "number", s |-> "", n |-> k]

timeAddressNorm == "/channel/1/stage/layer/1/foreground/file/time"

\* a.endsWith('/time'), for the addresses of the model
EndsWithTime(a) == a \in {"/channel/1/stage/layer/1/foreground/file/time",
                          "/channel/2/stage/layer/1/foreground/file/time"}

addressMatches(a) == a = timeAddressNorm \/ EndsWithTime(a)

\* parseFloat of the strings of the model: the number (in ms) or NaN (<< >>)
ParseFloat(str) == IF str = "1.5" THEN Some(1500) ELSE Null

parseTimeArg(v) ==
  IF v.t = "number" THEN Some(v.n)
  ELSE IF v.t = "string" THEN ParseFloat(v.s)
  ELSE Null

\* oscServer.on('message', handleMessage); msg is <<address, arg, ...>>
handleMessage(address, args) ==
  /\ alive
  /\ currentTimeSeconds' =
       IF addressMatches(address) /\ Len(args) > 0 /\ parseTimeArg(args[1]) # Null
       THEN parseTimeArg(args[1])
       ELSE currentTimeSeconds
  /\ quiet
  /\ UNCHANGED <<schedulerVars, now, clientVars, inflight, lastOp, disconnected,
                 oscTicked, alive>>
  /\ UNCHANGED <<loadedCues, stopInForce, encoderVars>>

(***************************************************************************)
(* Segmenter (titling-engine.js)                                           *)
(*                                                                         *)
(* A cue is [start, end, text], its times in ms.  The products and         *)
(* quotients of cueToSegments are computed exactly.                        *)
(***************************************************************************)
MAX_LINES == 2
CHARS_PER_LINE == 38

Cue(s, e, text) == [start |-> s, end |-> e, text |-> text]

\* text.split(/\s+/).filter(Boolean)
RECURSIVE words(_)
words(text) ==
  IF text = << >> THEN << >>
  ELSE IF Head(text) \in Whitespace THEN words(Tail(text))
  ELSE LET ws == {k \in 1..Len(text) : text[k] \in Whitespace}
           n == IF ws = {} THEN Len(text) ELSE MinOf(ws) - 1
       IN <<SubSeq(text, 1, n)>> \o words(SubSeq(text, n + 1, Len(text)))

\* the for loop of wrapLines over the words w, and the final push
RECURSIVE wrapFrom(_, _, _, _)
wrapFrom(w, line, result, maxChars) ==
  IF w = << >>
  THEN IF line # << >> THEN Append(result, line) ELSE result
  ELSE LET word == Head(w)
           next == IF line # << >> THEN line \o <<" ">> \o word ELSE word
       IN IF Len(next) <= maxChars
          THEN wrapFrom(Tail(w), next, result, maxChars)
          ELSE wrapFrom(Tail(w),
                        IF Len(word) <= maxChars THEN word ELSE Prefix(word, maxChars),
                        IF line # << >> THEN Append(result, line) ELSE result,
                        maxChars)

wrapLines(text, maxChars) == wrapFrom(words(text), << >>, << >>, maxChars)

\* allLines.slice(i, i + size).map((line) => line.slice(0, CHARS_PER_LINE)), i 0-based
chunkOf(allLines, i, size) ==
  [k \in 1..(IF Len(allLines) - i < size THEN Len(allLines) - i ELSE size) |->
     Prefix(allLines[i + k], CHARS_PER_LINE)]

\* the chunks of three lines
chunksOfThree(allLines) ==
  [c \in 1..((Len(allLines) + 2) \div 3) |-> chunkOf(allLines, (c - 1) * 3, 3)]

\* the first for loop of cueToSegments: the lines of each segment
chunks(allLines) ==
  [c \in 1..((Len(allLines) + MAX_LINES - 1) \div MAX_LINES) |->
     chunkOf(allLines, (c - 1) * MAX_LINES, MAX_LINES)]

\* the whole duration instead of the segment's share
segDurationWhole(duration, segChars, totalChars) == duration

\* duration * (segChars / totalChars)
segDuration(duration, segChars, totalChars) ==
  ExactDiv(duration * segChars, totalChars)

\* elapsed when the second for loop of cueToSegments reaches segment s (1-based)
RECURSIVE elapsedAt(_, _, _, _)
elapsedAt(cue, ch, totalChars, s) ==
  IF s = 1 THEN cue.start
  ELSE elapsedAt(cue, ch, totalChars, s - 1)
       + segDuration(cue.end - cue.start, joinedLength(ch[s - 1]), totalChars)

cueToSegments(cue) ==
  LET allLines == wrapLines(cue.text, CHARS_PER_LINE)
      ch == chunks(allLines)
      totalChars == joinedLength(allLines)
  IN IF Len(ch) = 0 THEN << >>
     ELSE IF Len(ch) = 1 THEN <<Seg(cue.start, cue.end, ch[1])>>
     ELSE [s \in 1..Len(ch) |->
             LET elapsed == elapsedAt(cue, ch, totalChars, s) IN
             Seg(elapsed,
                 IF s = Len(ch) THEN cue.end
                 ELSE elapsed + segDuration(cue.end - cue.start, joinedLength(ch[s]),
                                            totalChars),
                 ch[s])]

RECURSIVE cuesToSegments(_)
cuesToSegments(cues) ==
  IF cues = << >> THEN << >>
  ELSE cueToSegments(Head(cues)) \o cuesToSegments(Tail(cues))

(***************************************************************************)
(* parseVTT (vtt-parser.js); a file is the list of its cue blocks, each    *)
(* with the times of its timing line and the text of its lines             *)
(***************************************************************************)
\* list.join(' ')
RECURSIVE joinWords(_)
joinWords(list) ==
  IF list = << >> THEN << >>
  ELSE IF Len(list) = 1 THEN Head(list)
  ELSE Head(list) \o <<" ">> \o joinWords(Tail(list))

\* textLines.join(' ').replace(/\s+/g, ' ').trim()
cueText(raw) == joinWords(words(raw))

\* the while loop over the cue blocks: a block without text gives no cue
RECURSIVE parseVTT(_)
parseVTT(vttContent) ==
  IF vttContent = << >> THEN << >>
  ELSE LET block == Head(vttContent) IN
       (IF cueText(block.text) # << >>
        THEN <<Cue(block.start, block.end, cueText(block.text))>> ELSE << >>)
         \o parseVTT(Tail(vttContent))

(***************************************************************************)
(* Scheduler (vtt-titling-server.js)                                       *)
(***************************************************************************)
\* startTitling(): without the guard on tickTimer
startTitlingAlways ==
  /\ tickTimer' = <<"interval">>
  /\ intervals' = intervals + 1

startTitling ==
  IF tickTimer # Null
  THEN UNCHANGED <<tickTimer, intervals>>
  ELSE /\ tickTimer' = <<"interval">>
       /\ intervals' = intervals + 1

\* stopTitling(): clearing only when a title is shown
stopTitlingIfShown ==
  /\ IF tickTimer # Null
     THEN /\ intervals' = intervals - 1
          /\ tickTimer' = Null
     ELSE UNCHANGED <<tickTimer, intervals>>
  /\ lastShownSegmentIndex' = -1
  /\ IF lastShownSegmentIndex >= 0 THEN clearTitle ELSE noCommand

stopTitling ==
  /\ IF tickTimer # Null
     THEN /\ intervals' = intervals - 1
          /\ tickTimer' = Null
     ELSE UNCHANGED <<tickTimer, intervals>>
  /\ lastShownSegmentIndex' = -1
  /\ clearTitle

\* getCurrentTime() at wall-clock time clock: << >> is null
getCurrentTime(clock) ==
  IF timeMode = "autonomous"
  THEN Some(autonomousStartAt + (clock - autonomousStartWall))
  ELSE currentTimeSeconds

\* t >= segments[i].start && t < segments[i].end, with the end included
CoversInclusive(seg, t) == t >= seg.start /\ t <= seg.end

\* t >= segments[i].start && t < segments[i].end
Covers(seg, t) == t >= seg.start /\ t < seg.end

\* the for loop of tick: the first index whose segment covers t, or -1
currentIndexLast(segs, t) ==
  IF \E i \in 1..Len(segs) : Covers(segs[i], t)
  THEN (CHOOSE i \in 1..Len(segs) :
          /\ Covers(segs[i], t)
          /\ \A j \in 1..Len(segs) : Covers(segs[j], t) => j <= i) - 1
  ELSE -1

currentIndex(segs, t) ==
  IF \E i \in 1..Len(segs) : Covers(segs[i], t)
  THEN (CHOOSE i \in 1..Len(segs) :
          /\ Covers(segs[i], t)
          /\ \A j \in 1..(i - 1) : ~Covers(segs[j], t)) - 1
  ELSE -1

\* segments.find((s) => s.start > t)?.start : << >> is undefined
nextSegmentStart(segs, t) ==
  IF \E i \in 1..Len(segs) : segs[i].start > t
  THEN Some(segs[CHOOSE i \in 1..Len(segs) :
                   /\ segs[i].start > t
                   /\ \A j \in 1..(i - 1) : ~(segs[j].start > t)].start)
  ELSE Null

\* gapToNext > GAP_BEFORE_CLEAR_S, where gapToNext is Infinity without a next start
gapExceededInclusive(next, t) ==
  next = Null \/ next[1] - t >= GAP_BEFORE_CLEAR_S * MsPerSecond

gapExceeded(next, t) ==
  next = Null \/ next[1] - t > GAP_BEFORE_CLEAR_S * MsPerSecond

\* tick() after t was read as non-null
tickAt(t) ==
  IF Len(segments) = 0
  THEN IF lastShownSegmentIndex >= 0
       THEN clearTitle /\ lastShownSegmentIndex' = -1
       ELSE noCommand /\ UNCHANGED lastShownSegmentIndex
  ELSE LET cur == currentIndex(segments, t) IN
       IF cur >= 0
       THEN IF cur # lastShownSegmentIndex
            THEN sendTitle(segments[cur + 1].lines) /\ lastShownSegmentIndex' = cur
            ELSE noCommand /\ UNCHANGED lastShownSegmentIndex
       ELSE IF lastShownSegmentIndex >= 0
               /\ gapExceeded(nextSegmentStart(segments, t), t)
            THEN clearTitle /\ lastShownSegmentIndex' = -1
            ELSE noCommand /\ UNCHANGED lastShownSegmentIndex

\* tick() ignoring that the time may be null
tickBodyNoNullCheck(clock) ==
  LET t == getCurrentTime(clock) IN
  /\ tickAt(IF t = Null THEN 0 ELSE t[1])
  /\ oscTicked' = (oscTicked \/ (timeMode = "osc" /\ t # Null))

\* tick() run when Date.now() is clock
tickBody(clock) ==
  LET t == getCurrentTime(clock) IN
  /\ IF t = Null
     THEN noCommand /\ UNCHANGED lastShownSegmentIndex
     ELSE tickAt(t[1])
  /\ oscTicked' = (oscTicked \/ (timeMode = "osc" /\ t # Null))

\* An active interval timer fires tick.
Tick ==
  /\ alive
  /\ intervals > 0
  /\ tickBody(now)
  /\ response' = Null
  /\ UNCHANGED <<segments, tickTimer, intervals, timeMode, autonomousStartAt,
                 autonomousStartWall, now, currentTimeSeconds, clientVars,
                 inflight, lastOp, disconnected, alive>>
  /\ UNCHANGED <<loadedCues, stopInForce, encoderVars>>

\* TICK_MS pass and the interval timer fires tick.
IntervalTick ==
  /\ alive
  /\ intervals > 0
  /\ now + TICK_MS <= MaxNow
  /\ now' = now + TICK_MS
  /\ tickBody(now + TICK_MS)
  /\ response' = Null
  /\ UNCHANGED <<segments, tickTimer, intervals, timeMode, autonomousStartAt,
                 autonomousStartWall, currentTimeSeconds, clientVars,
                 inflight, lastOp, disconnected, alive>>
  /\ UNCHANGED <<loadedCues, stopInForce, encoderVars>>

\* Time passes.
Elapse ==
  /\ alive
  /\ now + ClockStep <= MaxNow
  /\ now' = now + ClockStep
  /\ quiet
  /\ UNCHANGED <<schedulerVars, currentTimeSeconds, clientVars, inflight, lastOp,
                 disconnected, oscTicked, alive>>
  /\ UNCHANGED <<loadedCues, stopInForce, encoderVars>>

(***************************************************************************)
(* HTTP control surface (vtt-titling-server.js)                            *)
(*                                                                         *)
(* A request is its route and its body: body is "invalid" (JSON.parse      *)
(* throws), "null" (the JSON literal null) or "object"; the fields of an   *)
(* object that the handler reads are JavaScript values.  startAt is in ms. *)
(* Status 0 is no response: the handler threw.                             *)
(***************************************************************************)
Request(body, vttPath, path, tm, startAt) ==
  [route |-> "/titling", body |-> body, vttPath |-> vttPath, path |-> path,
   timeMode |-> tm, startAt |-> startAt]

StopRequest ==
  [route |-> "/titling/stop", body |-> "object", vttPath |-> Undefined,
   path |-> Undefined, timeMode |-> Undefined, startAt |-> Undefined]

Reply(req, status) == Some([req |-> req, status |-> status])

\* fs.readFile(vttPath) resolves
ReadablePaths == {"ok.vtt"}

\* a ?? b
Coalesce(a, b) == IF a.t \in {"undefined", "null"} THEN b ELSE a

\* !v
Falsy(v) ==
  \/ v.t \in {"undefined", "null"}
  \/ v.t = "string" /\ v.s = ""
  \/ v.t = "number" /\ v.n = 0

\* const vttPath = data.vttPath ?? data.path;
resolveVttPath(data) == Coalesce(data.vttPath, data.path)

\* !vttPath || typeof vttPath !== 'string'
vttPathMissing(v) == Falsy(v) \/ v.t # "string"

\* timeModeOpt !== undefined && timeModeOpt !== 'osc' && timeModeOpt !== 'autonomous'
timeModeRejectedNever(tm) == FALSE

timeModeRejected(tm) == tm.t # "undefined" /\ tm # Str("osc") /\ tm # Str("autonomous")

\* typeof startAt === 'number' ? startAt : undefined
startAtOption(v) == IF v.t = "number" THEN v ELSE Undefined

\* loadVTT without the assignment lastShownSegmentIndex = -1
loadVTTKeepIndex(content, options) ==
  /\ segments' = cuesToSegments(parseVTT(content))
  /\ UNCHANGED lastShownSegmentIndex
  /\ timeMode' = IF options.timeMode = Str("autonomous") THEN "autonomous" ELSE "osc"
  /\ IF options.timeMode = Str("autonomous")
     THEN /\ autonomousStartAt' = IF options.startAt.t = "number" THEN options.startAt.n ELSE 0
          /\ autonomousStartWall' = now
     ELSE UNCHANGED <<autonomousStartAt, autonomousStartWall>>
  /\ startTitling

\* loadVTT after the file was read; content is the list of the cue blocks of the file
loadVTT(content, options) ==
  /\ segments' = cuesToSegments(parseVTT(content))
  /\ lastShownSegmentIndex' = -1
  /\ timeMode' = IF options.timeMode = Str("autonomous") THEN "autonomous" ELSE "osc"
  /\ IF options.timeMode = Str("autonomous")
     THEN /\ autonomousStartAt' = IF options.startAt.t = "number" THEN options.startAt.n ELSE 0
          /\ autonomousStartWall' = now
     ELSE UNCHANGED <<autonomousStartAt, autonomousStartWall>>
  /\ startTitling

\* POST /titling up to await fs.readFile
PostTitling(req) ==
  /\ alive
  /\ req.route = "/titling"
  /\ IF req.body = "invalid"
     THEN /\ response' = Reply(req, 400)
          /\ UNCHANGED <<inflight, alive>>
     ELSE IF req.body = "null"
     THEN \* data.vttPath throws a TypeError: an unhandled rejection, which ends the
          \* process or does not, depending on the runtime
          /\ response' = Reply(req, 0)
          /\ alive' \in BOOLEAN
          /\ UNCHANGED inflight
     ELSE IF vttPathMissing(resolveVttPath(req))
     THEN /\ response' = Reply(req, 400)
          /\ UNCHANGED <<inflight, alive>>
     ELSE IF timeModeRejected(req.timeMode)
     THEN /\ response' = Reply(req, 400)
          /\ UNCHANGED <<inflight, alive>>
     ELSE /\ Len(inflight) < MaxInflight
          /\ inflight' = Append(inflight,
               [req |-> req, vttPath |-> resolveVttPath(req).s,
                options |-> [timeMode |-> req.timeMode,
                             startAt |-> startAtOption(req.startAt)]])
          /\ response' = Null
          /\ UNCHANGED alive
  /\ calls' = << >>
  /\ UNCHANGED <<schedulerVars, now, currentTimeSeconds, clientVars, lastWritten,
                 wroteSinceLoad, lastOp, disconnected, oscTicked>>
  /\ UNCHANGED <<loadedCues, stopInForce, encoderVars>>

\* fs.readFile resolves for the i-th suspended handler: the rest of loadVTT, then 200
LoadComplete(i, content) ==
  /\ alive
  /\ i \in 1..Len(inflight)
  /\ inflight[i].vttPath \in ReadablePaths
  /\ loadVTT(content, inflight[i].options)
  /\ response' = Reply(inflight[i].req, 200)
  /\ inflight' = RemoveAt(inflight, i)
  /\ calls' = << >>
  /\ wroteSinceLoad' = FALSE
  /\ lastOp' = "load"
  /\ UNCHANGED <<now, currentTimeSeconds, clientVars, lastWritten, disconnected,
                 oscTicked, alive>>
  /\ loadedCues' = parseVTT(content)
  /\ stopInForce' = IF stopInForce # Null /\ i <= stopInForce[1]
                    THEN Some(stopInForce[1] - 1) ELSE Null
  /\ UNCHANGED encoderVars

\* fs.readFile rejects for the i-th suspended handler: 400 with the error's message
LoadFail(i) ==
  /\ alive
  /\ i \in 1..Len(inflight)
  /\ inflight[i].vttPath \notin ReadablePaths
  /\ response' = Reply(inflight[i].req, 400)
  /\ inflight' = RemoveAt(inflight, i)
  /\ calls' = << >>
  /\ UNCHANGED <<schedulerVars, now, currentTimeSeconds, clientVars, lastWritten,
                 wroteSinceLoad, lastOp, disconnected, oscTicked, alive>>
  /\ stopInForce' = IF stopInForce # Null /\ i <= stopInForce[1]
                    THEN Some(stopInForce[1] - 1) ELSE stopInForce
  /\ UNCHANGED <<loadedCues, encoderVars>>

\* POST or DELETE /titling/stop
PostStop ==
  /\ alive
  /\ stopTitling
  /\ response' = Reply(StopRequest, 200)
  /\ lastOp' = "stop"
  /\ UNCHANGED <<segments, timeMode, autonomousStartAt, autonomousStartWall, now,
                 currentTimeSeconds, clientVars, inflight, disconnected,
                 oscTicked, alive>>
  /\ stopInForce' = Some(Len(inflight))
  /\ UNCHANGED <<loadedCues, encoderVars>>

\* process.on('SIGINT'): stopTitling, caspar.disconnect, process.exit
Sigint ==
  /\ alive
  /\ stopTitling
  /\ disconnect
  /\ disconnected' = TRUE
  /\ alive' = FALSE
  /\ response' = Null
  /\ lastOp' = "stop"
  /\ UNCHANGED <<segments, timeMode, autonomousStartAt, autonomousStartWall, now,
                 currentTimeSeconds, inflight, oscTicked>>
  /\ stopInForce' = Some(Len(inflight))
  /\ UNCHANGED <<loadedCues, encoderVars>>

(***************************************************************************)
(* Parity codec (parity.js, bit-utils.js)                                  *)
(*                                                                         *)
(* A coded byte is named by what it encodes: [h84 |-> n] is the Hamming    *)
(* 8/4 byte of the nibble n, [h24 |-> v, byte |-> k] the k-th byte of the  *)
(* Hamming 24/18 code of v, [parity |-> b] the byte b with its parity bit. *)
(***************************************************************************)
\* the n low bits set
bitmask(n) == (2^n) - 1

\* x & mask, for a mask of low bits
LowBits(x, mask) == x % (mask + 1)

hammingEncodeNybble(n) == [h84 |-> n]

hammingEncode24(v) == [k \in 1..3 |-> [h24 |-> v, byte |-> k]]

applyParity(bytes) == [k \in 1..Len(bytes) |-> [parity |-> bytes[k]]]

(***************************************************************************)
(* X26Encoder (x26-encoder.js)                                             *)
(***************************************************************************)
Mode == [SetActivePosition |-> 4, DiacriticBase |-> 17, G2Character |-> 15,
         TerminationMarker |-> 31]

DiacriticIndex == [Acute |-> 2, Ring |-> 10, Caron |-> 15]

\* the codes of c-caron (lower[0]) and Z-caron (upper[7]) in two of the G2 code sets
G2_CARON_SETS == [default |-> [c_caron |-> 98, Z_caron |-> 90],
                  alt1 |-> [c_caron |-> 99, Z_caron |-> 89]]

\* charCodeAt(0) of the base letters
CharCodes == [a |-> 97, u |-> 117, c |-> 99, Z |-> 90]

\* the letters of acuteRing and of CARON_LETTERS, CARON_LETTERS_UC in the model
AcuteRing == [a_acute |-> [base |-> "a", diacritic |-> DiacriticIndex.Acute],
              u_ring |-> [base |-> "u", diacritic |-> DiacriticIndex.Ring]]

CaronBase == [c_caron |-> "c", Z_caron |-> "Z"]

\* an options object: each option is << >> (absent) or <<value>>
X26Opts(caronEncoding, caronDiacriticIndex, g2Variant) ==
  [caronEncoding |-> caronEncoding, caronDiacriticIndex |-> caronDiacriticIndex,
   g2Variant |-> g2Variant]

\* the Map of buildCzechMap(opts), as a function on its keys
buildCzechMap(opts) ==
  LET caronEncoding == IF opts.caronEncoding = Null THEN "compose" ELSE opts.caronEncoding[1]
      index == IF opts.caronDiacriticIndex = Null THEN 15 ELSE opts.caronDiacriticIndex[1]
      caronDiacriticIndex == IF index > 15 THEN 15 ELSE IF index < 1 THEN 1 ELSE index
      g2Variant == IF opts.g2Variant = Null THEN "default" ELSE opts.g2Variant[1]
      g2Set == IF g2Variant \in DOMAIN G2_CARON_SETS
               THEN G2_CARON_SETS[g2Variant] ELSE G2_CARON_SETS.default
  IN [ch \in DOMAIN AcuteRing \cup DOMAIN CaronBase |->
        IF ch \in DOMAIN AcuteRing
        THEN [base |-> AcuteRing[ch].base, diacritic |-> AcuteRing[ch].diacritic,
              g2 |-> Null, useCompose |-> TRUE, caronDiacriticIndex |-> Null]
        ELSE [base |-> CaronBase[ch], diacritic |-> DiacriticIndex.Caron,
              g2 |-> IF caronEncoding = "g2" THEN Some(g2Set[ch]) ELSE Null,
              useCompose |-> (caronEncoding = "compose"),
              caronDiacriticIndex |-> Some(caronDiacriticIndex)]]

Triplet(mode, address, data) == [mode |-> mode, address |-> address, data |-> data]

\* the three fields are disjoint, so their bitwise or is their sum
packEnhancementUnmasked(mode, address, data) ==
  LowBits(address, bitmask(6)) + (LowBits(mode, bitmask(5)) * (2^6)) + (data * (2^11))

packEnhancement(mode, address, data) ==
  LowBits(address, bitmask(6)) + (LowBits(mode, bitmask(5)) * (2^6))
    + (LowBits(data, bitmask(7)) * (2^11))

\* the fillers of #encodeX26Packet for a packet of count enhancements
fillersOf(count) ==
  IF count < 13
  THEN Flatten([i \in 1..(13 - count) |->
                  hammingEncode24(packEnhancement(Mode.TerminationMarker, 63,
                                                  IF i = 13 - count THEN 255 ELSE 0))])
  ELSE << >>

encodeX26Packet(packetNumber, enh) ==
  <<hammingEncodeNybble(packetNumber)>>
    \o Flatten([e \in 1..Len(enh) |->
                  hammingEncode24(packEnhancement(enh[e].mode, enh[e].address, enh[e].data))])
    \o fillersOf(Len(enh))

\* if (firstEnhancement) push SetActivePosition -- pushed for every character
pushActivePositionAlways(firstEnhancement, pushed, rowAddress) ==
  Append(pushed, Triplet(Mode.SetActivePosition, rowAddress, 0))

\* if (firstEnhancement) push SetActivePosition
pushActivePosition(firstEnhancement, pushed, rowAddress) ==
  IF firstEnhancement
  THEN Append(pushed, Triplet(Mode.SetActivePosition, rowAddress, 0))
  ELSE pushed

\* the triplet of the table character with entry at column col
characterTriplet(entry, col) ==
  IF entry.useCompose
  THEN LET idx == IF entry.caronDiacriticIndex # Null
                  THEN entry.caronDiacriticIndex[1] ELSE entry.diacritic
       IN Triplet(Mode.DiacriticBase + (idx - 1), col, LowBits(CharCodes[entry.base], 127))
  ELSE IF entry.g2 # Null
  THEN Triplet(Mode.G2Character, col, LowBits(entry.g2[1], 127))
  ELSE Triplet(Mode.DiacriticBase + (entry.diacritic - 1), col,
               LowBits(CharCodes[entry.base], 127))

\* the for loop of encodeRow from column col (0-based) on: row is the array of code
\* points, pushed the triplets pushed so far
RECURSIVE encodeRowFrom(_, _, _, _, _, _)
encodeRowFrom(row, col, firstEnhancement, pushed, rowLocation, czechMap) ==
  IF col >= Len(row) THEN [row |-> Flatten(row), pushed |-> pushed]
  ELSE LET char == row[col + 1] IN
       IF ~(Len(char) = 1 /\ char[1] \in DOMAIN czechMap)
       THEN encodeRowFrom(row, col + 1, firstEnhancement, pushed, rowLocation, czechMap)
       ELSE LET entry == czechMap[char[1]]
                rowAddress == IF rowLocation = 24 THEN 40 ELSE 40 + rowLocation
                cell == IF entry.g2 # Null THEN <<" ">> ELSE <<entry.base>>
            IN encodeRowFrom([row EXCEPT ![col + 1] = cell], col + 1, FALSE,
                             Append(pushActivePosition(firstEnhancement, pushed, rowAddress),
                                    characterTriplet(entry, col)),
                             rowLocation, czechMap)

\* encodeRow(str, rowLocation): the returned string and the triplets it pushes
encodeRow(str, rowLocation, opts) ==
  encodeRowFrom(CodePoints(str), 0, TRUE, << >>, rowLocation, buildCzechMap(opts))

\* the packets that the getter enhancementPackets builds from the enhancements enh
buildPackets(enh) ==
  [i \in 1..((Len(enh) + 12) \div 13) |->
     encodeX26Packet(i - 1, SubSeq(enh, (i - 1) * 13 + 1,
                                   IF i * 13 < Len(enh) THEN i * 13 ELSE Len(enh)))]

Call(op, args, value) == [op |-> op, args |-> args, value |-> value]

\* new X26Encoder(opts)
NewX26Encoder(opts) ==
  /\ czechOpts' = opts
  /\ enhancements' = << >>
  /\ packets' = Null
  /\ returned' = Call("X26Encoder", <<opts>>, Null)
  /\ UNCHANGED <<serverVars, wstOpts>>

\* x26encoder.encodeRow(str, rowLocation)
EncodeRow(str, rowLocation) ==
  LET r == encodeRow(str, rowLocation, czechOpts) IN
  /\ Len(enhancements) + Len(r.pushed) <= MaxTriplets
  /\ enhancements' = enhancements \o r.pushed
  /\ returned' = Call("encodeRow", <<str, rowLocation>>, r.row)
  /\ UNCHANGED <<serverVars, czechOpts, packets, wstOpts>>

\* x26encoder.enhancementPackets
EnhancementPackets ==
  /\ packets' = IF packets = Null THEN Some(buildPackets(enhancements)) ELSE packets
  /\ returned' = Call("enhancementPackets", << >>, packets'[1])
  /\ UNCHANGED <<serverVars, czechOpts, enhancements, wstOpts>>

(***************************************************************************)
(* WSTEncoder (wst-encoder.js)                                             *)
(***************************************************************************)
\* the fields that the constructor sets; magazine and page keep their defaults
WstOpts(diacriticsEncoding, startRow, x26Opts) ==
  [diacriticsEncoding |-> diacriticsEncoding, startRow |-> startRow, magazine |-> 0,
   page |-> 1, x26Opts |-> x26Opts]

\* Array(n).fill(' ').join(''); Array(n) throws for n < 0, the rows of the model have
\* at most 40 code units
spaces(n) == Rep(" ", n)

CZECH_TO_BASE == [a_acute |-> "a", u_ring |-> "u", c_caron |-> "c", Z_caron |-> "Z"]

toBaseLetters(str) ==
  LET cps == CodePoints(str) IN
  Flatten([c \in 1..Len(cps) |->
             IF Len(cps[c]) = 1 /\ cps[c][1] \in DOMAIN CZECH_TO_BASE
             THEN <<CZECH_TO_BASE[cps[c][1]]>>
             ELSE IF Len(cps[c]) = 1 /\ cps[c][1] \notin NonAscii THEN cps[c]
             ELSE <<"?">>])

\* #encodePrefix: 0x55 0x55 0x27 and the two bytes of the packet address
encodePrefix(magazine, packet) ==
  LET x == LowBits(magazine, 7)
      y == LowBits(packet, 31)
  IN <<85, 85, 39, hammingEncodeNybble(x + ((y % 2) * 8)), hammingEncodeNybble(y \div 2)>>

\* #encodeHeaderPacket; erase is 0 or 1
encodeHeaderPacket(magazine, page, pageSubCode, erase) ==
  LET pageUnits == page % 16
      pageTens == (page \div 16) % 16
      s1 == pageSubCode % 16
      s2 == ((pageSubCode \div 16) % 8) + (IF erase # 0 THEN 8 ELSE 0)
      s3 == (pageSubCode \div 256) % 16
      s4 == ((pageSubCode \div 4096) % 4) + 8
      cb1 == 3
      cb2 == 0
      controls == <<pageUnits, pageTens, s1, s2, s3, s4, cb1, cb2>>
  IN encodePrefix(magazine, 0)
       \o [k \in 1..8 |-> hammingEncodeNybble(LowBits(controls[k], 15))]
       \o [k \in 1..32 |-> 32]

\* `\x0b\x0b${text}\x0a\x0a${spaces(40 - text.length)}`.substring(0, 40)
boxedText(text) ==
  Prefix(<<"0B", "0B">> \o text \o <<"0A", "0A">> \o spaces(40 - Len(text)), 40)

\* return [...rowPackets, ...enhancementPackets]
packetOrderRowsFirst(enhancementPackets, rowPackets) == rowPackets \o enhancementPackets

\* return [...enhancementPackets, ...rowPackets]
packetOrder(enhancementPackets, rowPackets) == enhancementPackets \o rowPackets

\* #encodeDisplayRows; rows[i] of the model is rows[i - 1] of the code
encodeDisplayRows(startRow, rows, w) ==
  IF w.diacriticsEncoding = "latin2"
  THEN [i \in 1..Len(rows) |->
          encodePrefix(w.magazine, startRow + (i - 1))
            \o applyParity(textEncode(toBaseLetters(boxedText(rows[i]))))]
  ELSE LET encoded == [i \in 1..Len(rows) |->
                         encodeRow(boxedText(rows[i]), startRow + (i - 1), w.x26Opts)]
           rowPackets == [i \in 1..Len(rows) |->
                            encodePrefix(w.magazine, startRow + (i - 1))
                              \o applyParity(textEncode(encoded[i].row))]
           x26Packets == buildPackets(Flatten([i \in 1..Len(rows) |-> encoded[i].pushed]))
           enhancementPackets == [i \in 1..Len(x26Packets) |->
                                    encodePrefix(w.magazine, 26) \o x26Packets[i]]
       IN packetOrder(enhancementPackets, rowPackets)

\* encodeSubtitle(rows) of an encoder built with the options w
encodeSubtitle(rows, w) ==
  LET headerPacket == encodeHeaderPacket(w.magazine, w.page, 0, 1) IN
  IF Len(rows) = 0 THEN <<headerPacket>>
  ELSE <<headerPacket>> \o encodeDisplayRows(w.startRow, rows, w)

\* new WSTEncoder(opts)
NewWSTEncoder(w) ==
  /\ wstOpts' = w
  /\ returned' = Call("WSTEncoder", <<w>>, Null)
  /\ UNCHANGED <<serverVars, czechOpts, enhancements, packets>>

\* encoder.encodeSubtitle(rows)
EncodeSubtitle(rows) ==
  /\ returned' = Call("encodeSubtitle", <<rows>>, encodeSubtitle(rows, wstOpts))
  /\ UNCHANGED <<serverVars, czechOpts, enhancements, packets, wstOpts>>

(***************************************************************************)
(* Initial state: the module was evaluated, caspar.connect() was called    *)
(***************************************************************************)
Init ==
  /\ segments = << >>
  /\ lastShownSegmentIndex = -1
  /\ tickTimer = Null
  /\ intervals = 0
  /\ timeMode = "osc"
  /\ autonomousStartAt = 0
  /\ autonomousStartWall = 0
  /\ now = 0
  /\ currentTimeSeconds = Null
  /\ sockets = <<"connecting">>
  /\ socket = 1
  /\ reconnectTimer = "null"
  /\ timeouts = << >>
  /\ inflight = << >>
  /\ response = Null
  /\ calls = << >>
  /\ lastWritten = Null
  /\ wroteSinceLoad = FALSE
  /\ lastOp = "none"
  /\ disconnected = FALSE
  /\ oscTicked = FALSE
  /\ alive = TRUE
  /\ loadedCues = << >>
  /\ stopInForce = Null
  /\ czechOpts = X26Opts(Null, Null, Null)
  /\ enhancements = << >>
  /\ packets = Null
  /\ wstOpts = WstOpts("x26", 19, X26Opts(Null, Null, Null))
  /\ returned = Call("none", << >>, Null)

(***************************************************************************)
(* Inputs                                                                  *)
(***************************************************************************)
FileEmpty == << >>

FileHello == <<Cue(0, 2000, <<"H", "e", "l", "l", "o">>)>>

\* the second cue starts exactly 2 s after the first one ends
FileTwoNear == <<Cue(0, 1000, <<"A">>), Cue(3000, 4000, <<"B">>)>>

FileTwoFar == <<Cue(0, 1000, <<"A">>), Cue(4000, 5000, <<"B", " ", "b">>)>>

\* cues out of start order, two of them overlapping
FileUnsorted == <<Cue(4000, 5000, <<"C">>), Cue(0, 2000, <<"A">>),
                  Cue(1000, 2000, <<"B">>), Cue(3000, 3500, <<"D">>)>>

Files == {FileEmpty, FileTwoNear, FileTwoFar, FileUnsorted}

OscTimes == {0, 1000, 2000, 4000}

OscAddresses == {"/channel/1/stage/layer/1/foreground/file/time",
                 "/channel/2/stage/layer/1/foreground/file/time",
                 "/channel/1/mixer/audio/volume"}

OscArgs == {<< >>, <<Str("1.5")>>, <<Str("abc")>>} \cup {<<Num(t)>> : t \in OscTimes}

Requests ==
  {Request("object", Str("ok.vtt"), Undefined, Undefined, Undefined),
   Request("object", Str("ok.vtt"), Undefined, Str("autonomous"), Undefined),
   Request("object", Str("ok.vtt"), Undefined, Str("autonomous"), Num(1000))}

(***************************************************************************)
(* The server                                                              *)
(***************************************************************************)
Next ==
  \/ \E req \in Requests : PostTitling(req)
  \/ \E i \in 1..Len(inflight), content \in Files : LoadComplete(i, content)
  \/ PostStop
  \/ Tick
  \/ Elapse
  \/ \E a \in OscAddresses, args \in OscArgs : handleMessage(a, args)
  \/ Sigint

Spec == Init /\ [][Next]_vars

(***************************************************************************)
(* The server with an unreliable link to CasparCG, driven by OSC time      *)
(***************************************************************************)
LinkRequests == {Request("object", Str("ok.vtt"), Undefined, Undefined, Undefined)}

LinkFiles == {FileTwoNear}

NextLink ==
  \/ \E req \in LinkRequests : PostTitling(req)
  \/ \E i \in 1..Len(inflight), content \in LinkFiles : LoadComplete(i, content)
  \/ PostStop
  \/ Tick
  \/ \E a \in OscAddresses, args \in OscArgs : handleMessage(a, args)
  \/ \E i \in 1..Len(sockets) : SocketConnected(i)
  \/ \E i \in 1..Len(sockets) : SocketError(i)
  \/ \E i \in 1..Len(sockets) : SocketClose(i)
  \/ ReconnectTimerFire

SpecLink == Init /\ [][NextLink]_vars

(***************************************************************************)
(* CasparClient under any use of its public methods                        *)
(***************************************************************************)
NextClient ==
  \/ Connect
  \/ Disconnect
  \/ \E i \in 1..Len(sockets) : SocketConnected(i)
  \/ \E i \in 1..Len(sockets) : SocketError(i)
  \/ \E i \in 1..Len(sockets) : SocketClose(i)
  \/ ReconnectTimerFire

\* A pending setTimeout fires while the process runs.
SpecClient == Init /\ [][NextClient]_vars /\ WF_vars(ReconnectTimerFire)

(***************************************************************************)
(* The HTTP control surface under any request body                         *)
(***************************************************************************)
VttPathValues == {Undefined, JsNull, Num(5), Str(""), Str("ok.vtt"), Str("missing.vtt")}

PathValues == {Undefined, Str("ok.vtt")}

TimeModeValues == {Undefined, Num(1), Str("osc"), Str("external"), Str("autonomous")}

StartAtValues == {Undefined, Num(1000)}

AllRequests ==
  {Request("invalid", Undefined, Undefined, Undefined, Undefined),
   Request("null", Undefined, Undefined, Undefined, Undefined)}
  \cup {Request("object", v, p, tm, sa) :
          v \in VttPathValues, p \in PathValues, tm \in TimeModeValues, sa \in StartAtValues}

HttpFiles == {FileHello}

\* requests arrive one at a time
NextHttp ==
  \/ \E req \in AllRequests : inflight = << >> /\ PostTitling(req)
  \/ \E i \in 1..Len(inflight), content \in HttpFiles : LoadComplete(i, content)
  \/ \E i \in 1..Len(inflight) : LoadFail(i)
  \/ PostStop

SpecHttp == Init /\ [][NextHttp]_vars

(***************************************************************************)
(* One autonomous run: a single load of a one-cue file, then a tick every  *)
(* TICK_MS                                                                 *)
(***************************************************************************)
\* no tick time 100, 200, ... lies inside the cue
FileBlink == <<Cue(510, 590, <<"B", "l", "i", "n", "k">>)>>

FileBrief == <<Cue(250, 1050, <<"B", "r", "i", "e", "f">>)>>

\* as long as a tick period, but over before the first tick
FileFirst == <<Cue(0, 100, <<"F", "i", "r", "s", "t">>)>>

RunFiles == {FileHello, FileBrief, FileBlink, FileFirst}

RunRequests ==
  {Request("object", Str("ok.vtt"), Undefined, Str("autonomous"), sa) :
     sa \in {Undefined, Num(200)}}

NextRun ==
  \/ \E req \in RunRequests : lastOp = "none" /\ inflight = << >> /\ PostTitling(req)
  \/ \E content \in RunFiles : LoadComplete(1, content)
  \/ IntervalTick

\* The interval timer keeps firing while it is active.
SpecRun == Init /\ [][NextRun]_vars /\ WF_vars(IntervalTick)

(***************************************************************************)
(* Loads of files whose cues wrap into several lines and segments          *)
(***************************************************************************)
Word(n) == Rep("a", n)

TextBlank == <<" ", " ">>

TextShort == Word(5)

\* one word of 39 code units that ends with a surrogate pair
TextLongWord == Word(37) \o <<"D83D", "DE00">>

TextTwoLines == Word(20) \o <<" ">> \o Word(20)

\* three lines in two segments of 40 and 20 characters
TextThreeLines == Word(20) \o <<" ", " ">> \o Word(20) \o <<" ">> \o Word(20)

\* five lines in three segments of 40, 76 and 1 characters
TextFiveLines ==
  Word(10) \o <<" ">> \o Word(30) \o <<" ">> \o Word(38) \o <<" ">> \o Word(45)
    \o <<" ">> \o Word(1)

SegmenterTexts == {TextBlank, TextShort, TextLongWord, TextTwoLines, TextThreeLines,
                   TextFiveLines}

\* cues of 2340 ms, of which every share is a whole number of ms, and a cue that ends
\* before it starts
SegmenterCues ==
  {Cue(s, s + 2340, t) : s \in {0, 1000, 2340}, t \in SegmenterTexts}
    \cup {Cue(2340, 0, TextThreeLines)}

SegmenterFiles ==
  {<< >>} \cup {<<c>> : c \in SegmenterCues}
          \cup {<<c, d>> : c \in SegmenterCues, d \in SegmenterCues}

NextSegmenter ==
  \/ \E req \in LinkRequests : inflight = << >> /\ PostTitling(req)
  \/ \E content \in SegmenterFiles : LoadComplete(1, content)

SpecSegmenter == Init /\ [][NextSegmenter]_vars

(***************************************************************************)
(* Calls on one X26Encoder                                                 *)
(***************************************************************************)
X26Default == X26Opts(Null, Null, Null)

X26OptionSets == {X26Default, X26Opts(Some("g2"), Null, Null),
                  X26Opts(Some("g2"), Null, Some("alt1")),
                  X26Opts(Some("compose"), Some(13), Null)}

RowPlain == <<"a", "b">>

\* four table characters in columns 0, 2, 4 and 5; column 1 holds a letter outside
\* the table and column 3 a surrogate pair
RowMixed == <<"a_acute", "o_umlaut", "c_caron", "D83D", "DE00", "Z_caron", "u_ring">>

\* twelve table characters: with the SetActivePosition triplet, one full packet
RowTwelve == Rep("a_acute", 12)

X26Rows == {RowPlain, RowMixed, RowTwelve}

RowLocations == {19, 24}

NextX26 ==
  \/ \E opts \in X26OptionSets : NewX26Encoder(opts)
  \/ \E str \in X26Rows, rowLocation \in RowLocations : EncodeRow(str, rowLocation)
  \/ EnhancementPackets

SpecX26 == Init /\ [][NextX26]_vars

(***************************************************************************)
(* Pages built by one WSTEncoder                                           *)
(***************************************************************************)
WstOptionSets == {WstOpts("x26", 19, X26Default),
                  WstOpts("x26", 23, X26Opts(Some("g2"), Null, Null)),
                  WstOpts("x26", 19, X26Opts(Some("compose"), Some(13), Null)),
                  WstOpts("latin2", 19, X26Default),
                  WstOpts("latin2", 23, X26Default)}

LineCzech == <<"a_acute", "c_caron", "b">>

\* a letter outside the Czech tables
LineOther == <<"o_umlaut", "b">>

\* a character outside the Basic Multilingual Plane
LineAstral == <<"D83D", "DE00", "b">>

\* fourteen table characters: with SetActivePosition, more than one X/26 packet
LineFourteen == Rep("a_acute", 14)

\* lines of at most CHARS_PER_LINE code units, as the segmenter produces them
WstLines == {Word(1), Word(36), Word(37), Word(CHARS_PER_LINE), LineCzech, LineOther,
             LineAstral, LineFourteen}

\* the rows of a segment: at most MAX_LINES lines; none for a clear
WstRows ==
  {<< >>} \cup {<<a>> : a \in WstLines}
          \cup {<<a, b>> : a \in WstLines, b \in {Word(1), LineFourteen}}

NextWst ==
  \/ \E w \in WstOptionSets : NewWSTEncoder(w)
  \/ \E rows \in WstRows : EncodeSubtitle(rows)

SpecWst == Init /\ [][NextWst]_vars

(***************************************************************************)
(* Properties                                                              *)
(***************************************************************************)
\* the 0-based indices of the segments that contain t
Covering(t) == {i - 1 : i \in {j \in 1..Len(segments) : segments[j].start <= t /\ t < segments[j].end}}

\* the 1-based positions of the segments that start after t
StartingAfter(t) == {j \in 1..Len(segments) : segments[j].start > t}

IsTitleFor(cs, lines) == Len(cs) = 1 /\ cs[1].op = "sendTitle" /\ cs[1].lines = lines

IsClear(cs) == Len(cs) = 1 /\ cs[1].op = "clearTitle"

\* C1: a tick with a non-null time t and a non-empty segment list, where cur is the
\* lowest index of a segment with start <= t < end: if cur differs from
\* lastShownSegmentIndex the tick issues exactly one sendTitle with segments[cur].lines
\* and sets lastShownSegmentIndex to cur; if cur equals lastShownSegmentIndex it issues
\* no command and changes no state.
C1_TickShowRule ==
  [][Tick =>
       LET t == getCurrentTime(now) IN
       (t # Null /\ Len(segments) > 0 /\ Covering(t[1]) # {}) =>
          LET cur == MinOf(Covering(t[1])) IN
          IF cur # lastShownSegmentIndex
          THEN /\ IsTitleFor(calls', segments[cur + 1].lines)
               /\ lastShownSegmentIndex' = cur
          ELSE /\ calls' = << >>
               /\ UNCHANGED <<schedulerVars, lastWritten>>]_vars

\* a tick has just replaced the shown title by the title of another segment
C1_Witness ==
  /\ lastShownSegmentIndex >= 1
  /\ lastWritten # Null /\ lastWritten # Some(<< >>)
  /\ IsTitleFor(calls, segments[lastShownSegmentIndex + 1].lines)

C3_ShownWasWritten ==
  lastShownSegmentIndex >= 0 =>
    /\ wroteSinceLoad
    /\ lastWritten = Some(segments[lastShownSegmentIndex + 1].lines)

\* C4: Stop with a writable socket, from any scheduler state, cancels the tick timer,
\* sets lastShownSegmentIndex to -1 and writes exactly one clear command.
C4_Stop ==
  [][PostStop /\ writable =>
       /\ tickTimer' = Null
       /\ intervals' = 0
       /\ lastShownSegmentIndex' = -1
       /\ calls' = <<ClearCall(TRUE)>>
       /\ lastWritten' = Some(<< >>)]_vars

\* Stop right after a load, before any tick read a time: one clear was written
C4_Witness ==
  /\ lastOp = "stop"
  /\ Len(segments) > 0
  /\ ~oscTicked
  /\ calls = <<ClearCall(TRUE)>>
  /\ tickTimer = Null

\* C5: a successful load replaces the segment list, sets lastShownSegmentIndex to -1,
\* sets the mode (and the origin in autonomous mode) and leaves the tick timer running;
\* at most one interval timer is active, and one is active exactly when the last
\* completed operation was a load.
C5_Load ==
  /\ [](/\ intervals <= 1
        /\ (intervals = 1 <=> tickTimer # Null)
        /\ (tickTimer # Null <=> lastOp = "load"))
  /\ [][\A i \in 1..Len(inflight), content \in Files :
          LoadComplete(i, content) =>
            LET req == inflight[i].req IN
            /\ segments' = cuesToSegments(parseVTT(content))
            /\ lastShownSegmentIndex' = -1
            /\ timeMode' = IF req.timeMode = Str("autonomous") THEN "autonomous" ELSE "osc"
            /\ req.timeMode = Str("autonomous") =>
                 /\ autonomousStartAt' = IF req.startAt.t = "number" THEN req.startAt.n ELSE 0
                 /\ autonomousStartWall' = now
            /\ tickTimer' # Null
            /\ intervals' = 1]_vars

\* a load has just completed while the timer of an earlier load was running (a title
\* written before it is still the last command)
C5_Witness ==
  /\ response # Null /\ response[1].status = 200 /\ response[1].req.route = "/titling"
  /\ lastOp = "load"
  /\ ~wroteSinceLoad
  /\ lastWritten # Null /\ lastWritten # Some(<< >>)
  /\ timeMode = "autonomous" /\ autonomousStartAt = 1000 /\ autonomousStartWall > 0
  /\ intervals = 1

\* C6: in OSC mode, while no reading was received, a tick issues no command and
\* changes no scheduler state; the first tick that reads a time t issues the title of
\* the segment covering t, if there is one.
C6_NullTime ==
  /\ [][(Tick /\ timeMode = "osc" /\ currentTimeSeconds = Null) =>
          /\ calls' = << >>
          /\ UNCHANGED <<schedulerVars, lastWritten>>]_vars
  /\ [][(Tick /\ timeMode = "osc" /\ currentTimeSeconds # Null /\ ~oscTicked
              /\ Covering(currentTimeSeconds[1]) # {}) =>
          LET cur == MinOf(Covering(currentTimeSeconds[1])) IN
          /\ IsTitleFor(calls', segments[cur + 1].lines)
          /\ lastShownSegmentIndex' = cur]_vars

\* the title of the segment covering the OSC time was issued
C6_Witness ==
  /\ timeMode = "osc"
  /\ oscTicked
  /\ currentTimeSeconds # Null
  /\ Covering(currentTimeSeconds[1]) # {}
  /\ lastShownSegmentIndex = MinOf(Covering(currentTimeSeconds[1]))
  /\ IsTitleFor(calls, segments[lastShownSegmentIndex + 1].lines)

\* the single cue of an autonomous run that started no later than the cue
RunLoaded ==
  /\ lastOp = "load"
  /\ Len(segments) = 1
  /\ timeMode = "autonomous"
  /\ autonomousStartAt <= segments[1].start
  /\ writable

\* the VTT time at wall-clock time clock
RunTime(clock) == autonomousStartAt + (clock - autonomousStartWall)

Inside(t) == segments[1].start <= t /\ t < segments[1].end

\* some tick of the run reads a time inside the cue
TickInside ==
  \E k \in 1..((MaxNow - autonomousStartWall) \div TICK_MS) :
    Inside(autonomousStartAt + k * TICK_MS)

LiveSockets == {i \in 1..Len(sockets) : Live(sockets[i])}

\* C8: under any interleaving of connect(), disconnect(), 'close' events and reconnect
\* timers, at most one socket is live, and the live socket is the one the client
\* references.
C8_SingleConnection ==
  /\ Cardinality(LiveSockets) <= 1
  /\ LiveSockets # {} => socket \in LiveSockets

\* C9: once connect() was called, every 'close' event schedules a connection attempt
\* after the fixed delay of 2 s, so that a client that was not disconnected does not
\* stay without a socket forever; a socket error changes nothing of the scheduler and
\* sends no HTTP response.
C9_Reconnects ==
  /\ ((socket = 0 /\ ~disconnected) ~> (socket # 0 \/ disconnected))
  /\ [][\A i \in 1..Len(sockets) :
          SocketClose(i) => timeouts' = Append(timeouts, 2000)]_vars
  /\ [](socket = 0 /\ ~disconnected => timeouts # << >>)
  /\ [][\A i \in 1..Len(sockets) :
          SocketError(i) => (response' = Null /\ calls' = << >> /\ UNCHANGED schedulerVars)]_vars

\* a reconnect timer has fired and the client has its socket again
C9_Witness ==
  /\ ~disconnected
  /\ reconnectTimer = "fired"
  /\ timeouts = << >>
  /\ socket # 0
  /\ Len(sockets) = 1
  /\ sockets[socket] = "connecting"

\* the request names a readable file in a string vttPath
NamesReadableFile(r) == r.vttPath.t = "string" /\ r.vttPath.s \in ReadablePaths

EffectivePath(r) == IF r.vttPath \in {Undefined, JsNull} THEN r.path ELSE r.vttPath

\* the request passes the validation of the amended claim
Accepted(r) ==
  /\ r.body = "object"
  /\ EffectivePath(r).t = "string" /\ EffectivePath(r).s # ""
  /\ r.timeMode \in {Undefined, Str("osc"), Str("autonomous")}

ExpectedStatus(r) ==
  IF r.body = "null" THEN 0
  ELSE IF Accepted(r) /\ EffectivePath(r).s \in ReadablePaths THEN 200
  ELSE 400

C11_SegmentGeometry ==
  \A k \in 1..Len(segments) :
    /\ Len(segments[k].lines) \in 1..2
    /\ \A j \in 1..Len(segments[k].lines) : Len(segments[k].lines[j]) \in 1..38

\* a word of 39 characters was cut to a line of 38, and a cue gave a two-line segment
C11_Witness ==
  /\ \E k \in 1..Len(segments) : segments[k].lines = <<Prefix(TextLongWord, 38)>>
  /\ \E k \in 1..Len(segments) : Len(segments[k].lines) = 2

\* the number of characters of a segment: lines.join('').length
SegChars(seg) == joinedLength(seg.lines)

RECURSIVE SumChars(_)
SumChars(segs) == IF segs = << >> THEN 0 ELSE SegChars(Head(segs)) + SumChars(Tail(segs))

RECURSIVE SumDurations(_)
SumDurations(segs) ==
  IF segs = << >> THEN 0 ELSE (Head(segs).end - Head(segs).start) + SumDurations(Tail(segs))

\* the number of segments that the first c cues of a file yield
RECURSIVE SegmentCount(_, _)
SegmentCount(content, c) ==
  IF c = 0 THEN 0 ELSE SegmentCount(content, c - 1) + Len(cueToSegments(content[c]))

\* the segments of segs that come from cue c of the file
SegmentsOfCue(content, c, segs) ==
  SubSeq(segs, SegmentCount(content, c - 1) + 1, SegmentCount(content, c))

TimingOk(cue, segs) ==
  LET k == Len(segs) IN
  k >= 1 =>
    /\ segs[1].start = cue.start
    /\ \A s \in 2..k : segs[s].start = segs[s - 1].end
    /\ segs[k].end = cue.end
    /\ k >= 2 => \A s \in 1..(k - 1) :
         (segs[s].end - segs[s].start) * SumChars(segs)
           = (cue.end - cue.start) * SegChars(segs[s])
    /\ \A s \in 1..k : segs[s].start <= segs[s].end
    /\ SumDurations(segs) = cue.end - cue.start

StartOrdered(content) ==
  /\ \A c \in 1..Len(content) : content[c].end > content[c].start
  /\ \A c \in 1..(Len(content) - 1) : content[c].start <= content[c + 1].start

\* the start and end times of the segments, and the ms before each
ProbeTimes(segs) ==
  UNION {{segs[k].start, segs[k].start - 1, segs[k].end, segs[k].end - 1} : k \in 1..Len(segs)}

\* C19: after the load of a file whose cues are in non-decreasing start order, each
\* with end > start, the installed segments are sorted by start, and the scheduler's
\* first segment with start > t is the one with the smallest start after t.
C19_SegmentOrdering ==
  StartOrdered(loadedCues) =>
    /\ \A k \in 1..(Len(segments) - 1) : segments[k].start <= segments[k + 1].start
    /\ \A t \in ProbeTimes(segments) :
         LET after == {segments[k].start : k \in {j \in 1..Len(segments) : segments[j].start > t}}
         IN nextSegmentStart(segments, t) = IF after = {} THEN Null ELSE Some(MinOf(after))

\* the fields of an 18-bit triplet value
AddressOf(v) == v % 64

ModeOf(v) == (v \div 64) % 32

DataOf(v) == v \div 2048

\* the value whose Hamming 24/18 code is in slot k (0-based) of an X/26 packet
SlotValue(packet, k) == packet[2 + 3 * k].h24

IsSlot(packet, k) ==
  \A b \in 1..3 : packet[1 + 3 * k + b] = [h24 |-> SlotValue(packet, k), byte |-> b]

IsFiller(v) == ModeOf(v) = 31 /\ AddressOf(v) = 63

\* ps are the packets that the claim describes for the triplets enh
PacketsFor(ps, enh) ==
  /\ Len(ps) = (Len(enh) + 12) \div 13
  /\ \A i \in 1..Len(ps) :
       /\ Len(ps[i]) = 40
       /\ ps[i][1] = [h84 |-> i - 1]
       /\ \A k \in 0..12 :
            /\ IsSlot(ps[i], k)
            /\ LET j == (i - 1) * 13 + k + 1
                   v == SlotValue(ps[i], k)
               IN IF j <= Len(enh)
                  THEN /\ ModeOf(v) = enh[j].mode
                       /\ AddressOf(v) = enh[j].address
                       /\ DataOf(v) = enh[j].data
                  ELSE IsFiller(v)

\* C13: whenever enhancementPackets is read with N accumulated triplets, it yields
\* ceil(N/13) packets with designation codes 0, 1, 2, ..., each of 1 + 39 bytes, the N
\* triplets in accumulation order and termination markers in the rest of the last one.
C13_PacketSize ==
  returned.op = "enhancementPackets" => PacketsFor(returned.value, enhancements)

\* the 0-based slots of the fillers of a packet
FillerSlots(packet) == {k \in 0..12 : IsFiller(SlotValue(packet, k))}

\* the data fields of the fillers of every padded packet: last for the last filler,
\* 0 for the others
FillerData(ps, last) ==
  \A i \in 1..Len(ps) : \A k \in FillerSlots(ps[i]) :
    DataOf(SlotValue(ps[i], k)) = IF k = 12 THEN last ELSE 0

FieldsInWidth(ps) ==
  \A i \in 1..Len(ps) : \A k \in 0..12 : SlotValue(ps[i], k) \in 0..(2^18 - 1)

\* C14 as stated: the data field of the last filler of a padded packet is 0xFF and
\* that of every other filler 0x00, and every triplet's fields stay in their widths.
C14_Original ==
  returned.op = "enhancementPackets" =>
    FillerData(returned.value, 255) /\ FieldsInWidth(returned.value)

\* C14: in every padded packet that enhancementPackets returns, the data field of the
\* last filler is 0x7F (0xFF cut to the 7 bits of the field) and that of every other
\* filler is 0x00, and every encoded value fits in 18 bits.
C14_FillerData ==
  returned.op = "enhancementPackets" =>
    FillerData(returned.value, 127) /\ FieldsInWidth(returned.value)

\* a read returned two packets, the second with five triplets and eight fillers
C14_Witness ==
  /\ returned.op = "enhancementPackets"
  /\ Len(returned.value) = 2
  /\ FillerSlots(returned.value[2]) = 5..12
  /\ FillerSlots(returned.value[1]) = {}

\* the 0-based columns of the table characters of a row, in column order
TableColumns(str) ==
  LET cps == CodePoints(str) IN
  {k \in 0..(Len(cps) - 1) : Len(cps[k + 1]) = 1 /\ cps[k + 1][1] \in DOMAIN CZECH_TO_BASE}

\* the k-th smallest element of a set of numbers
RECURSIVE Nth(_, _)
Nth(S, k) == IF k = 1 THEN MinOf(S) ELSE Nth(S \ {MinOf(S)}, k - 1)

\* the mode of the triplet of a table letter under the options opts
ExpectedMode(letter, opts) ==
  LET caron == letter \in {"c_caron", "Z_caron"}
      idx == IF ~caron THEN (IF letter = "a_acute" THEN 2 ELSE 10)
             ELSE IF opts.caronDiacriticIndex = Null THEN 15
             ELSE opts.caronDiacriticIndex[1]
  IN IF caron /\ opts.caronEncoding = Some("g2") THEN 15 ELSE 17 + (idx - 1)

\* pushed is what the claim describes for a call encodeRow(str, rowLocation)
StreamFor(pushed, str, rowLocation, opts) ==
  LET cols == TableColumns(str)
      k == Cardinality(cols)
  IN IF k = 0 THEN pushed = << >>
     ELSE /\ Len(pushed) = k + 1
          /\ pushed[1].mode = 4
          /\ pushed[1].address = (IF rowLocation = 24 THEN 40 ELSE 40 + rowLocation)
          /\ pushed[1].data = 0
          /\ \A n \in 1..k :
               /\ pushed[n + 1].address = Nth(cols, n)
               /\ pushed[n + 1].mode
                    = ExpectedMode(CodePoints(str)[Nth(cols, n) + 1][1], opts)

\* C15: every call of encodeRow on an X26Encoder, whatever was encoded before, appends
\* nothing for a row without table characters, and for a row with k >= 1 of them one
\* SetActivePosition triplet (mode 0x04, the row address, data 0) and then k triplets
\* in column order, each addressed by its 0-based column, with mode DiacriticBase +
\* (idx - 1) or G2Character.
C15_EnhancementStream ==
  [][returned'.op = "encodeRow" =>
       /\ Len(enhancements') >= Len(enhancements)
       /\ SubSeq(enhancements', 1, Len(enhancements)) = enhancements
       /\ StreamFor(SubSeq(enhancements', Len(enhancements) + 1, Len(enhancements')),
                    returned'.args[1], returned'.args[2], czechOpts)]_vars

\* the mixed row was encoded at row 24 on an encoder that held triplets already, under
\* options that precompose the carons
C15_Witness ==
  /\ returned = Call("encodeRow", <<RowMixed, 24>>, <<"a", "o_umlaut", " ", "D83D", "DE00", " ", "u">>)
  /\ Len(enhancements) > 5
  /\ czechOpts.caronEncoding = Some("g2")
  /\ SubSeq(enhancements, Len(enhancements) - 4, Len(enhancements))
       = <<Triplet(4, 40, 0), Triplet(18, 0, 97), Triplet(15, 2, 98), Triplet(15, 4, 90),
           Triplet(26, 5, 117)>>

\* the packet address Y in the prefix of a packet
PacketAddress(packet) == (packet[4].h84 \div 8) + 2 * packet[5].h84

\* the positions of the display-row packets of a page
RowPackets(page) == {i \in 1..Len(page) : PacketAddress(page[i]) \notin {0, 26}}

\* C16: every display-row packet that encodeSubtitle builds for rows of at most 38
\* characters, in latin2 and in x26 mode and for every class of character, has 45
\* bytes: the 5-byte prefix and a payload of exactly 40 bytes.
C16_RowPayloadLength ==
  returned.op = "encodeSubtitle" =>
    \A i \in RowPackets(returned.value) : Len(returned.value[i]) = 45

\* the packet is the header of magazine 0, page 0x01 with the erase flag
IsEraseHeader(packet) ==
  /\ Len(packet) = 45
  /\ PacketAddress(packet) = 0
  /\ packet[6] = [h84 |-> 1]
  /\ packet[7] = [h84 |-> 0]
  /\ packet[9].h84 \div 8 = 1

\* C17: encodeSubtitle(rows) returns the erase-flagged header first; for no rows that
\* one 45-byte packet alone; for rows in x26 mode the header, then the X/26 packets in
\* ascending designation order, then one display-row packet per row in input order.
\* In latin2 mode the header is followed by the display rows only.
C17_PacketOrder ==
  returned.op = "encodeSubtitle" =>
    LET page == returned.value
        rows == returned.args[1]
        x26 == {i \in 1..Len(page) : PacketAddress(page[i]) = 26}
        n == Cardinality(x26)
    IN /\ Len(page) >= 1
       /\ IsEraseHeader(page[1])
       /\ rows = << >> => Len(page) = 1
       /\ wstOpts.diacriticsEncoding = "latin2" => n = 0
       /\ x26 = 2..(1 + n)
       /\ \A i \in x26 : page[i][6] = [h84 |-> i - 2]
       /\ Len(page) = 1 + n + Len(rows)
       /\ \A j \in 1..Len(rows) :
            PacketAddress(page[1 + n + j]) = wstOpts.startRow + (j - 1)

\* a page of two rows in x26 mode with three X/26 packets before the rows
C17_Witness ==
  /\ returned.op = "encodeSubtitle"
  /\ returned.args = <<(<<LineFourteen, LineFourteen>>)>>
  /\ wstOpts.diacriticsEncoding = "x26"
  /\ Len(returned.value) = 6
  /\ PacketAddress(returned.value[4]) = 26
  /\ PacketAddress(returned.value[5]) = wstOpts.startRow

\* the line has only ASCII letters
IsPlain(line) == \A k \in 1..Len(line) : line[k] = "a"

\* the 40 bytes of the framed row of a plain line
Framed(line) ==
  [k \in 1..40 |->
     [parity |-> IF k <= 2 THEN "0B"
                 ELSE IF k <= 2 + Len(line) THEN line[k - 2]
                 ELSE IF k <= 4 + Len(line) THEN "0A"
                 ELSE " "]]

\* C18: for every plain line of 1..38 characters, the 40-character row of its
\* display-row packet is the start pair 0x0B 0x0B, the complete line, the end pair
\* 0x0A 0x0A and then spaces; neither the line nor the end pair is cut.
C18_RowFraming ==
  returned.op = "encodeSubtitle" =>
    LET page == returned.value
        rows == returned.args[1]
    IN \A j \in 1..Len(rows) :
         IsPlain(rows[j]) =>
           LET packet == page[Len(page) - Len(rows) + j] IN
           /\ Len(rows[j]) + 4 <= Len(packet) - 5
           /\ SubSeq(packet, 6, Len(packet)) = Framed(rows[j])

\* C20: after disconnect(), until connect() is called again, under any order of the
\* 'close' event of the destroyed socket and the timers, no reconnect timer is pending
\* and no socket is created.
C20_DisconnectFinal ==
  /\ [](disconnected => timeouts = << >>)
  /\ [][(disconnected /\ disconnected') => Len(sockets') <= Len(sockets)]_vars

\* C21: while a Stop is in force, that is from stopTitling() until a load completes
\* whose request was received after it, no interval timer is active (so no tick runs)
\* and no title is sent; a load whose file read began before the Stop does not
\* restart titling.
C21_StopHolds ==
  stopInForce # Null =>
    /\ tickTimer = Null
    /\ intervals = 0
    /\ \A k \in 1..Len(calls) : calls[k].op # "sendTitle"

\* the last command written to the socket is a title
TitleOnScreen == lastWritten # Null /\ lastWritten[1] # << >>

\* C22: with the socket writable throughout, whenever the last command sent downstream
\* is a title, lastShownSegmentIndex >= 0, so that a later tick can still clear it.
C22_NoOrphanedTitle ==
  TitleOnScreen => lastShownSegmentIndex >= 0

\* C23: lastShownSegmentIndex is -1 or an index of segments, and -1 whenever segments
\* is empty, so no tick takes the branch that clears the title for an empty list.
C23_IndexRange ==
  /\ lastShownSegmentIndex = -1 \/ lastShownSegmentIndex \in 0..(Len(segments) - 1)
  /\ Len(segments) = 0 => lastShownSegmentIndex = -1

\* a tick has just shown the last segment of a list of several
C23_Witness ==
  /\ Len(segments) >= 2
  /\ lastShownSegmentIndex = Len(segments) - 1
  /\ IsTitleFor(calls, segments[Len(segments)].lines)

====
